---- MODULE Spec2Model ----
(***************************************************************************)
(* Model of compile.py, the batch driver that lists wat/*.wat and runs     *)
(* ./wat2wasm on every match through os.system.                            *)
(*                                                                         *)
(* Strings are sequences of one-character strings, so that split, replace, *)
(* the glob pattern match and the shell's word splitting are computed      *)
(* character by character, as Python and /bin/sh compute them.             *)
(***************************************************************************)
EXTENDS Naturals, Sequences, FiniteSets

VARIABLES
    fs,         \* the files below the working directory: a set of paths, each a sequence of names
    watDir,     \* TRUE iff the directory wat/ exists
    wasm,       \* the output paths the external tool has written so far
    run,        \* number of the current run of the script
    pc,         \* position of the script: glob, loop, print, system, shell, done, error
    wats,       \* the list returned by glob("wat/*.wat")
    i,          \* index in wats of the loop variable w (0 before the first iteration)
    cmd,        \* the local cmd
    printed,    \* the lines print() was called with, in order, this run
    executed,   \* the strings os.system() was called with, in order, this run
    rets,       \* the values os.system() returned this run (the script discards them)
    sh,         \* commands the running shell has parsed and not yet started
    fg,         \* the process the shell waits for: a set, empty if none
    bg,         \* processes the shell started with & and does not wait for
    spawned,    \* argument lists of the processes started by each os.system() call of this run
    status,     \* exit status of the shell's last command
    prevCmds,   \* set of command lines the previous run executed
    prevOuts    \* set of output paths the previous run derived

vars == <<fs, watDir, wasm, run, pc, wats, i, cmd, printed, executed, rets,
          sh, fg, bg, spawned, status, prevCmds, prevOuts>>

----------------------------------------------------------------------------
(* Bounds of the model *)

\* names of the exhaustive directories are built from at most MaxPieces pieces
MaxPieces == 3
\* the sampled directories hold at most MaxFiles files
MaxFiles == 2
\* the script is run at most MaxRuns times in a row
MaxRuns == 2

----------------------------------------------------------------------------
(* String literals of compile.py *)

\* "wat"   (directory part of "wat/*.wat")
WatDirName == <<"w", "a", "t">>
\* ".wat"
DotWat == <<".", "w", "a", "t">>
\* ".wasm"
DotWasm == <<".", "w", "a", "s", "m">>
\* "./wat2wasm "
ToolSp == <<".", "/", "w", "a", "t", "2", "w", "a", "s", "m", " ">>
\* " -o wasm/"
SpDashOWasm == <<" ", "-", "o", " ", "w", "a", "s", "m", "/">>
\* "/"
Slash == "/"

----------------------------------------------------------------------------
(* Python string operations *)

EndsWith(s, p) == Len(s) >= Len(p) /\ SubSeq(s, Len(s) - Len(p) + 1, Len(s)) = p

\* s.split(c)[-1] for a one-character separator c: what follows the last c
RECURSIVE SplitLast(_, _)
SplitLast(s, c) ==
    IF \E k \in 1..Len(s) : s[k] = c
    THEN SplitLast(SubSeq(s, (CHOOSE k \in 1..Len(s) : s[k] = c) + 1, Len(s)), c)
    ELSE s

\* s.replace(old, new): every non-overlapping occurrence, scanning from the left
RECURSIVE Replace(_, _, _)
Replace(s, old, new) ==
    IF Len(s) < Len(old) THEN s
    ELSE IF SubSeq(s, 1, Len(old)) = old
         THEN new \o Replace(SubSeq(s, Len(old) + 1, Len(s)), old, new)
         ELSE <<s[1]>> \o Replace(Tail(s), old, new)

----------------------------------------------------------------------------
(* glob("wat/*.wat") *)

\* os.scandir(d): the names directly in directory d
ListDir(d) == { p[2] : p \in { q \in fs : Len(q) >= 2 /\ q[1] = d } }

\* glob._ishidden: a name that starts with a dot
IsHidden(name) == name # <<>> /\ name[1] = "."

\* fnmatch of a name against "*.wat"
MatchStarDotWat(name) == EndsWith(name, DotWat)

\* faulty variant of Select: hidden names are not dropped
SelectHiddenToo(names) == { n \in names : MatchStarDotWat(n) }

\* glob1: the pattern does not start with a dot, so hidden names are dropped
\* before the names are matched
Select(names) == { n \in names : ~IsHidden(n) /\ MatchStarDotWat(n) }

\* os.path.join("wat", name)
JoinWat(name) == WatDirName \o <<Slash>> \o name

\* the matches, as a set: nothing when wat/ cannot be listed
Matches == IF watDir THEN { JoinWat(n) : n \in Select(ListDir(WatDirName)) } ELSE {}

\* every order in which the listing can return a set of paths
Orders(S) ==
    { s \in [1..Cardinality(S) -> S] : \A a, b \in 1..Cardinality(S) : a # b => s[a] # s[b] }

----------------------------------------------------------------------------
(* The command line, line 7 *)

\* w.split("/")[-1].replace(".wat", ".wasm")
OutName(w) == Replace(SplitLast(w, Slash), DotWat, DotWasm)

\* faulty variant of Cmd: the blank after the tool path is missing
CmdNoBlank(w) == <<".", "/", "w", "a", "t", "2", "w", "a", "s", "m">> \o w \o SpDashOWasm \o OutName(w)

\* "./wat2wasm "+w+" -o wasm/"+w.split("/")[-1].replace(".wat",".wasm")
Cmd(w) == ToolSp \o w \o SpDashOWasm \o OutName(w)

----------------------------------------------------------------------------
(* os.system(cmd): /bin/sh -c cmd and the processes it starts *)

\* "./wat2wasm"
Tool == <<".", "/", "w", "a", "t", "2", "w", "a", "s", "m">>
\* "-o"
DashO == <<"-", "o">>

\* exit statuses a process can end with: success and failure
ExitStatuses == {0, 1}

AddWord(argv, word) == IF word = <<>> THEN argv ELSE Append(argv, word)

\* The shell's reading of an unquoted command line: blanks separate words,
\* ";" ends a command the shell waits for, "&" ends a command it does not
\* wait for.  (Of the shell's control operators only these two single
\* characters occur in the command lines of this model.)
RECURSIVE ShScan(_, _, _, _)
ShScan(s, word, argv, cmds) ==
    IF s = <<>>
    THEN IF AddWord(argv, word) = <<>> THEN cmds
         ELSE Append(cmds, [argv |-> AddWord(argv, word), bg |-> FALSE])
    ELSE IF Head(s) = " "
         THEN ShScan(Tail(s), <<>>, AddWord(argv, word), cmds)
    ELSE IF Head(s) \in {";", "&"}
         THEN ShScan(Tail(s), <<>>, <<>>,
                     Append(cmds, [argv |-> AddWord(argv, word), bg |-> (Head(s) = "&")]))
    ELSE ShScan(Tail(s), Append(word, Head(s)), argv, cmds)

ShParse(c) == ShScan(c, <<>>, <<>>, <<>>)

\* a ";" or "&" with no command before it is a syntax error: the shell runs
\* nothing and exits with status 2
ShSyntaxError(cmds) == \E k \in 1..Len(cmds) : cmds[k].argv = <<>>

\* the external tool writes the file named after -o when it succeeds
ToolWrites(argv) ==
    IF argv # <<>> /\ argv[1] = Tool
    THEN { argv[k + 1] : k \in { j \in 1..(Len(argv) - 1) : argv[j] = DashO } }
    ELSE {}

IsToolProc(p) == p.argv[1] = Tool

----------------------------------------------------------------------------
(* Initial states *)

\* pieces the names of the exhaustive directories are built from
Pieces == { <<"a">>, DotWat, DotWasm, <<".", "t", "x", "t">>, <<" ">>, <<";">> }

RECURSIVE NamesOf(_)
NamesOf(k) ==
    IF k = 0 THEN { <<>> }
    ELSE NamesOf(k - 1) \cup { p \o n : p \in Pieces, n \in NamesOf(k - 1) }

Names == NamesOf(MaxPieces) \ { <<>> }

\* a directory wat/ with one entry, for every name
SingleDirs == { { <<WatDirName, n>> } : n \in Names }

\* files the sampled directories are drawn from
SamplePaths ==
    { <<WatDirName, <<"a">> \o DotWat>>,                       \* wat/a.wat
      <<WatDirName, <<"c", ".", "t", "x", "t">>>>,             \* wat/c.txt
      <<WatDirName, <<"a">> \o DotWat \o DotWat>>,             \* wat/a.wat.wat
      <<WatDirName, <<"a">> \o DotWasm \o DotWat>>,            \* wat/a.wasm.wat
      <<WatDirName, <<".", "a">> \o DotWat>>,                  \* wat/.a.wat
      <<WatDirName, <<"a", "&">> \o DotWat>>,                  \* wat/a&.wat
      <<WatDirName, <<"s">>, <<"a">> \o DotWat>>,              \* wat/s/a.wat
      <<WatDirName, <<"d">> \o DotWat, <<"n">>>>,              \* wat/d.wat/n
      << <<"a">> \o DotWat >> }                                \* a.wat

SampleDirs == { d \in SUBSET SamplePaths : Cardinality(d) <= MaxFiles }

UnderWat(d) == \E p \in d : Len(p) >= 2 /\ p[1] = WatDirName

Init ==
    /\ fs \in SampleDirs \cup SingleDirs
    /\ watDir \in BOOLEAN
    /\ UnderWat(fs) => watDir
    /\ wasm = {}
    /\ run = 1
    /\ pc = "glob"
    /\ wats = <<>>
    /\ i = 0
    /\ cmd = <<>>
    /\ printed = <<>>
    /\ executed = <<>>
    /\ rets = <<>>
    /\ sh = <<>>
    /\ fg = {}
    /\ bg = {}
    /\ spawned = <<>>
    /\ status = 0
    /\ prevCmds = {}
    /\ prevOuts = {}

----------------------------------------------------------------------------
(* The script *)

\* faulty variant of Glob: a directory that cannot be listed raises
GlobRaises ==
    /\ pc = "glob"
    /\ IF watDir
       THEN (\E s \in Orders(Matches) : wats' = s) /\ pc' = "loop"
       ELSE wats' = <<>> /\ pc' = "error"
    /\ i' = 0
    /\ UNCHANGED <<fs, watDir, wasm, run, cmd, printed, executed, rets, sh, fg, bg,
                   spawned, status, prevCmds, prevOuts>>

\* line 4: wats = glob("wat/*.wat"); a directory that cannot be listed gives []
Glob ==
    /\ pc = "glob"
    /\ \E s \in Orders(Matches) : wats' = s
    /\ i' = 0
    /\ pc' = "loop"
    /\ UNCHANGED <<fs, watDir, wasm, run, cmd, printed, executed, rets, sh, fg, bg,
                   spawned, status, prevCmds, prevOuts>>

\* "wasm/" + w.split("/")[-1].replace(".wat", ".wasm"): the path after -o
OutPath(w) == <<"w", "a", "s", "m", "/">> \o OutName(w)

\* faulty variant of Loop: the loop ends at the first nonzero status
LoopStopsOnFailure ==
    /\ pc = "loop"
    /\ IF i < Len(wats) /\ (rets = <<>> \/ rets[Len(rets)] = 0)
       THEN /\ i' = i + 1
            /\ cmd' = Cmd(wats[i + 1])
            /\ pc' = "print"
       ELSE /\ pc' = "done"
            /\ UNCHANGED <<i, cmd>>
    /\ UNCHANGED <<fs, watDir, wasm, run, wats, printed, executed, rets, sh, fg, bg,
                   spawned, status, prevCmds, prevOuts>>

\* faulty variant of Loop: a file whose output exists already is skipped
LoopSkipsExisting ==
    /\ pc = "loop"
    /\ IF i < Len(wats)
       THEN /\ i' = i + 1
            /\ IF OutPath(wats[i + 1]) \in wasm
               THEN pc' = "loop" /\ cmd' = cmd
               ELSE pc' = "print" /\ cmd' = Cmd(wats[i + 1])
       ELSE /\ pc' = "done"
            /\ UNCHANGED <<i, cmd>>
    /\ UNCHANGED <<fs, watDir, wasm, run, wats, printed, executed, rets, sh, fg, bg,
                   spawned, status, prevCmds, prevOuts>>

\* lines 6-7: the next w of wats and its command line, or the end of the loop
Loop ==
    /\ pc = "loop"
    /\ IF i < Len(wats)
       THEN /\ i' = i + 1
            /\ cmd' = Cmd(wats[i + 1])
            /\ pc' = "print"
       ELSE /\ pc' = "done"
            /\ UNCHANGED <<i, cmd>>
    /\ UNCHANGED <<fs, watDir, wasm, run, wats, printed, executed, rets, sh, fg, bg,
                   spawned, status, prevCmds, prevOuts>>

\* faulty variant of PrintCmd: the input path is printed, not the command
PrintInput ==
    /\ pc = "print"
    /\ printed' = Append(printed, wats[i])
    /\ pc' = "system"
    /\ UNCHANGED <<fs, watDir, wasm, run, wats, i, cmd, executed, rets, sh, fg, bg,
                   spawned, status, prevCmds, prevOuts>>

\* line 8: print(cmd)
PrintCmd ==
    /\ pc = "print"
    /\ printed' = Append(printed, cmd)
    /\ pc' = "system"
    /\ UNCHANGED <<fs, watDir, wasm, run, wats, i, cmd, executed, rets, sh, fg, bg,
                   spawned, status, prevCmds, prevOuts>>

\* line 9: os.system(cmd) starts /bin/sh -c cmd, which parses the line
System ==
    /\ pc = "system"
    /\ executed' = Append(executed, cmd)
    /\ spawned' = Append(spawned, <<>>)
    /\ IF ShSyntaxError(ShParse(cmd))
       THEN sh' = <<>> /\ status' = 2
       ELSE sh' = ShParse(cmd) /\ status' = 0
    /\ pc' = "shell"
    /\ UNCHANGED <<fs, watDir, wasm, run, wats, i, cmd, printed, rets, fg, bg,
                   prevCmds, prevOuts>>

\* the shell starts its next command, and waits for it unless it ended in "&"
ShSpawn ==
    /\ pc = "shell"
    /\ fg = {}
    /\ sh # <<>>
    /\ LET c == Head(sh)
           p == [id |-> <<run, i, Len(spawned[i]) + 1>>, argv |-> c.argv]
       IN /\ sh' = Tail(sh)
          /\ spawned' = [spawned EXCEPT ![i] = Append(@, c.argv)]
          /\ IF c.bg
             THEN bg' = bg \cup {p} /\ status' = 0 /\ fg' = fg
             ELSE fg' = {p} /\ UNCHANGED <<bg, status>>
    /\ UNCHANGED <<fs, watDir, wasm, run, pc, wats, i, cmd, printed, executed, rets,
                   prevCmds, prevOuts>>

\* the process the shell waits for exits, with any status
FgExit ==
    /\ \E p \in fg, s \in ExitStatuses :
          /\ fg' = {}
          /\ status' = s
          /\ wasm' = wasm \cup (IF s = 0 THEN ToolWrites(p.argv) ELSE {})
    /\ UNCHANGED <<fs, watDir, run, pc, wats, i, cmd, printed, executed, rets, sh, bg,
                   spawned, prevCmds, prevOuts>>

\* a process the shell did not wait for exits, at any later time
BgExit ==
    /\ \E p \in bg, s \in ExitStatuses :
          /\ bg' = bg \ {p}
          /\ wasm' = wasm \cup (IF s = 0 THEN ToolWrites(p.argv) ELSE {})
    /\ UNCHANGED <<fs, watDir, run, pc, wats, i, cmd, printed, executed, rets, sh, fg,
                   spawned, status, prevCmds, prevOuts>>

\* line 9: the shell has run the whole line; os.system returns its status,
\* which the script drops
Return ==
    /\ pc = "shell"
    /\ fg = {}
    /\ sh = <<>>
    /\ rets' = Append(rets, status)
    /\ pc' = "loop"
    /\ UNCHANGED <<fs, watDir, wasm, run, wats, i, cmd, printed, executed, sh, fg, bg,
                   spawned, status, prevCmds, prevOuts>>

Range(s) == { s[k] : k \in 1..Len(s) }

\* the script is started again on the unchanged directory, once the
\* processes the previous run left behind have ended
Rerun ==
    /\ pc = "done"
    /\ run < MaxRuns
    /\ bg = {}
    /\ run' = run + 1
    /\ prevCmds' = Range(executed)
    /\ prevOuts' = { OutPath(w) : w \in Range(wats) }
    /\ pc' = "glob"
    /\ wats' = <<>>
    /\ i' = 0
    /\ cmd' = <<>>
    /\ printed' = <<>>
    /\ executed' = <<>>
    /\ rets' = <<>>
    /\ spawned' = <<>>
    /\ status' = 0
    /\ UNCHANGED <<fs, watDir, wasm, sh, fg, bg>>

Next ==
    \/ Glob
    \/ Loop
    \/ PrintCmd
    \/ System
    \/ ShSpawn
    \/ FgExit
    \/ BgExit
    \/ Return
    \/ Rerun

Spec == Init /\ [][Next]_vars

----------------------------------------------------------------------------
(* Properties *)

\* " "
Blank == <<" ">>

\* the names directly in wat/, whatever they name
WatEntries == { p[2] : p \in { q \in fs : Len(q) >= 2 /\ q[1] = WatDirName } }

\* the path wat/<name>
InWat(name) == <<"w", "a", "t", "/">> \o name

\* the tool processes that are running
ToolProcs == { p \in fg \cup bg : IsToolProc(p) }

\* C1: for every listed path w the command string is the tool path, w, the
\* flag -o and the output path derived for w, in that order, separated by
\* single blanks and with nothing else around them.
C1_CommandShape ==
    /\ pc \in {"print", "system", "shell"} =>
          cmd = Tool \o Blank \o wats[i] \o Blank \o DashO \o Blank \o OutPath(wats[i])
    /\ \A k \in 1..Len(executed) :
          executed[k] = Tool \o Blank \o wats[k] \o Blank \o DashO \o Blank \o OutPath(wats[k])

\* the command for wat/a.wat is ./wat2wasm wat/a.wat -o wasm/a.wasm
C1_Witness ==
    /\ pc = "shell"
    /\ wats[i] = <<"w", "a", "t", "/", "a", ".", "w", "a", "t">>
    /\ executed[i] = <<".", "/", "w", "a", "t", "2", "w", "a", "s", "m", " ",
                       "w", "a", "t", "/", "a", ".", "w", "a", "t", " ",
                       "-", "o", " ",
                       "w", "a", "s", "m", "/", "a", ".", "w", "a", "s", "m">>

\* C2: the output path of wat/<name>.wat is wasm/ followed by the base name
\* with only its trailing .wat replaced by .wasm; every other character of
\* the base name, an earlier .wat included, is carried over unchanged.
C2_OnlySuffixReplaced ==
    pc \in {"print", "system", "shell"} =>
        LET base == SplitLast(wats[i], Slash)
            stem == SubSeq(base, 1, Len(base) - Len(DotWat))
        IN cmd = ToolSp \o wats[i] \o <<" ", "-", "o", " ">>
                    \o <<"w", "a", "s", "m", "/">> \o stem \o DotWasm

C4_ToolGetsWholePaths ==
    \A k \in 1..Len(rets) :
        spawned[k] = << <<Tool, wats[k], DashO, OutPath(wats[k])>> >>

\* C5 as stated: the entries of wat/ whose names end with the extension .wat
\* (a stem followed by .wat) are selected, every one of them once, and
\* nothing else.
C5_SelectsEveryDotWatEntry ==
    pc # "glob" =>
        /\ Range(wats) =
              { InWat(n) : n \in { m \in WatEntries : EndsWith(m, DotWat) /\ Len(m) > Len(DotWat) } }
        /\ \A a, b \in 1..Len(wats) : a # b => wats[a] # wats[b]

\* C5 amended: the entries of wat/ whose names end with .wat and do not
\* start with a dot are selected, every one of them once, and nothing else.
C5_SelectsVisibleDotWatEntries ==
    pc # "glob" =>
        /\ Range(wats) =
              { InWat(n) : n \in { m \in WatEntries : EndsWith(m, DotWat) /\ m[1] # "." } }
        /\ \A a, b \in 1..Len(wats) : a # b => wats[a] # wats[b]

\* wat/ holds a.wat and c.txt, and a.wat alone is selected
C5_Witness ==
    /\ pc = "loop"
    /\ fs = { <<WatDirName, <<"a", ".", "w", "a", "t">>>>,
              <<WatDirName, <<"c", ".", "t", "x", "t">>>> }
    /\ wats = << <<"w", "a", "t", "/", "a", ".", "w", "a", "t">> >>

\* C6: at most one external tool process is running at any time.
C6_NoOverlap == Cardinality(ToolProcs) <= 1

\* C7: every command is printed before it is executed and with the text
\* that is executed: the executed commands are a prefix of the printed
\* lines, at most one line ahead, and the two lists are equal at the end.
C7_PrintedThenExecuted ==
    /\ Len(executed) <= Len(printed)
    /\ Len(printed) <= Len(executed) + 1
    /\ \A k \in 1..Len(executed) : printed[k] = executed[k]
    /\ pc = "system" => Len(printed) = Len(executed) + 1 /\ printed[Len(printed)] = cmd
    /\ pc \in {"loop", "done"} => printed = executed

\* two commands were printed and executed, the first of them failed
C7_Witness ==
    /\ pc = "done"
    /\ Len(printed) = 2
    /\ rets[1] # 0
    /\ printed = executed

\* C8: a second run on the unchanged directory executes the same set of
\* command lines and derives the same set of output paths as the first,
\* one call per matched file, whatever the first run left in wasm/.
C8_SecondRunSameWork ==
    (run > 1 /\ pc = "done") =>
        /\ Range(executed) = prevCmds
        /\ { OutPath(w) : w \in Range(wats) } = prevOuts
        /\ Len(executed) = Cardinality(Matches)

\* the second run ended after executing a command whose output the tool had written
C8_Witness ==
    /\ run = 2
    /\ pc = "done"
    /\ executed # <<>>
    /\ rets[1] # 0
    /\ OutPath(wats[1]) \in wasm

\* C9: when wat/ does not exist, is empty or holds no entry ending with
\* .wat, nothing is listed, printed or executed, no process is started and
\* the run does not raise.
C9_NoInputNoWork ==
    (~watDir \/ ~(\E n \in WatEntries : EndsWith(n, DotWat))) =>
        /\ wats = <<>>
        /\ printed = <<>>
        /\ executed = <<>>
        /\ spawned = <<>>
        /\ fg \cup bg = {}
        /\ pc \in {"glob", "loop", "done"}

\* the run ended with no directory wat/
C9_Witness == pc = "done" /\ ~watDir /\ printed = <<>> /\ executed = <<>>

\* C10: two distinct listed files have two distinct output paths.
C10_InjectiveOutputs ==
    \A a, b \in 1..Len(wats) : a # b => OutPath(wats[a]) # OutPath(wats[b])

====
